---- MODULE Spec2Model ----
(***************************************************************************)
(* The user service of dockerfiles/user-service/app.py: a connection pool  *)
(* over a PostgreSQL store, the schema bootstrap with its retry loop, the  *)
(* request handlers of UserHandler (do_GET, do_POST) and the background    *)
(* load loop.  A handler is a sequence of steps, one per access to the     *)
(* pool or the store; requests in progress are a bag of handler frames.    *)
(***************************************************************************)
EXTENDS Integers, Sequences, FiniteSets, Bags, TLC

(***************************************************************************)
(* Bounds of the model.                                                    *)
(***************************************************************************)
\* Requests in progress at a time on the concurrent workers of ThreadedSpec.
PoolInFlight == 11
\* Values the SERIAL sequence of users.id hands out.
MaxId == 2

(***************************************************************************)
(* Constants of the program.                                               *)
(***************************************************************************)
\* SimpleConnectionPool(1, 10, ...)
minconn == 1
maxconn == 10
\* max_retries = 5
max_retries == 5
\* name VARCHAR(100), email VARCHAR(100)
VarcharLen == 100
\* LIMIT 100
ListLimit == 100
\* HTTPServer(('0.0.0.0', 8000), handler) (line 376) has no threading mix-in:
\* serve_forever handles one request to its end before it accepts the next.
ListenerWorkers == 1

(***************************************************************************)
(* Paths, as the characters the handlers compare and split.                *)
(***************************************************************************)
PathHealth == <<"/", "h", "e", "a", "l", "t", "h">>
PathUsers == <<"/", "u", "s", "e", "r", "s">>
PathUsersSlash == <<"/", "u", "s", "e", "r", "s", "/">>
PathUser1 == PathUsersSlash \o <<"1">>
PathUser2 == PathUsersSlash \o <<"2">>
PathUserAbc == PathUsersSlash \o <<"a", "b", "c">>
PathOther == <<"/", "n", "o", "p", "e">>

\* str.startswith
StartsWith(s, prefix) ==
    /\ Len(s) >= Len(prefix)
    /\ SubSeq(s, 1, Len(prefix)) = prefix

\* s.split('/')[-1]: what follows the last '/'
RECURSIVE LastSegment(_)
LastSegment(s) ==
    IF s = <<>> THEN <<>>
    ELSE IF s[Len(s)] = "/" THEN <<>>
    ELSE Append(LastSegment(SubSeq(s, 1, Len(s) - 1)), s[Len(s)])

DigitChars == {"0", "1", "2", "3", "4", "5", "6", "7", "8", "9"}

\* str.isdigit: not empty, and every character a digit
IsDigit(s) == s # <<>> /\ \A i \in 1..Len(s) : s[i] \in DigitChars

DigitVal(c) ==
    CASE c = "0" -> 0 [] c = "1" -> 1 [] c = "2" -> 2 [] c = "3" -> 3
      [] c = "4" -> 4 [] c = "5" -> 5 [] c = "6" -> 6 [] c = "7" -> 7
      [] c = "8" -> 8 [] c = "9" -> 9

\* int(user_id) of a string of digits
RECURSIVE ToInt(_)
ToInt(s) ==
    IF s = <<>> THEN 0
    ELSE 10 * ToInt(SubSeq(s, 1, Len(s) - 1)) + DigitVal(s[Len(s)])

(***************************************************************************)
(* JSON values and request bodies.                                         *)
(***************************************************************************)
Str(s) == [t |-> "str", s |-> s]
Null == [t |-> "null", s |-> ""]

\* A name of 101 characters, one more than VARCHAR(100) holds.
LongName ==
    "aaaaaaaaaaaaaaaaaaaaaaaaaaaaaaaaaaaaaaaaaaaaaaaaaa" \o
    "aaaaaaaaaaaaaaaaaaaaaaaaaaaaaaaaaaaaaaaaaaaaaaaaaaa"

\* kind: what json.loads(post_data.decode('utf-8')) meets.
\*   "object"       a JSON object; hasName, hasEmail: its keys
\*   "array"        the JSON array []
\*   "number"       a JSON number
\*   "invalid_json" text that is no JSON
\*   "invalid_utf8" bytes that are no UTF-8
Body(kind, hasName, name, hasEmail, email) ==
    [kind |-> kind, hasName |-> hasName, name |-> name,
     hasEmail |-> hasEmail, email |-> email]

ObjectBody(name, email) == Body("object", TRUE, name, TRUE, email)
NoBody == Body("none", FALSE, Null, FALSE, Null)

Names == {Str("ann"), Null, Str(LongName)}
Emails == {Str("a@x"), Str("b@x")}

ValidBodies == {ObjectBody(n, e) : n \in Names, e \in Emails}

BadBodies ==
    { Body("object", FALSE, Null, TRUE, Str("a@x")),
      Body("object", FALSE, Null, FALSE, Null),
      Body("array", FALSE, Null, FALSE, Null),
      Body("number", FALSE, Null, FALSE, Null),
      Body("invalid_json", FALSE, Null, FALSE, Null),
      Body("invalid_utf8", FALSE, Null, FALSE, Null) }

\* hasCL, cl: the Content-Length header, when the request carries one.
Request(method, path, hasCL, cl, body) ==
    [method |-> method, path |-> path, hasCL |-> hasCL, cl |-> cl, body |-> body]

GetRequests ==
    { Request("GET", p, FALSE, 0, NoBody) :
        p \in {PathHealth, PathUsers, PathUser1, PathUser2, PathUserAbc, PathOther} }

PostRequests ==
    { Request("POST", PathUsers, TRUE, 17, b) : b \in ValidBodies \cup BadBodies }
    \cup { Request("POST", PathUsers, FALSE, 0, ObjectBody(Str("ann"), Str("a@x"))),
           Request("POST", PathUsers, TRUE, 0, ObjectBody(Str("ann"), Str("a@x"))),
           Request("POST", PathUsers, TRUE, -1, ObjectBody(Str("ann"), Str("a@x"))),
           Request("POST", PathOther, TRUE, 17, ObjectBody(Str("ann"), Str("a@x"))) }

Requests == GetRequests \cup PostRequests

\* The requests of ThreadedSpec: the three kinds that use the store.
PoolRequests ==
    { Request("GET", PathUsers, FALSE, 0, NoBody),
      Request("GET", PathUser1, FALSE, 0, NoBody),
      Request("POST", PathUsers, TRUE, 17, ObjectBody(Str("ann"), Str("a@x"))) }

(***************************************************************************)
(* State.                                                                  *)
(***************************************************************************)
VARIABLES
    dbUp,             \* the PostgreSQL server is reachable
    tableExists,      \* the users table exists
    users,            \* the committed rows of users
    nextId,           \* the next value of the SERIAL sequence
    connection_pool,  \* the pool object exists (FALSE: connection_pool is None)
    pool_idle,        \* connection_pool._pool: the idle connections
    used,             \* len(connection_pool._used): the leased connections
    mainPc,           \* where __main__ is: "retry", "init_db", "serving"
    attempt,          \* calls of init_database made by the retry loop
    mainConn,         \* the connection init_database holds
    warned,           \* the warning after the last failed attempt was logged
    bgPc,             \* simulate_background_load: "off", "sleep", "leased"
    bgConn,           \* the connection the load loop holds
    inflight,         \* the handler frames of the requests in progress
    resp,             \* the exchange the latest step completed (NoResp: none)
    acked             \* the rows a 201 response has carried

vars == <<dbUp, tableExists, users, nextId, connection_pool, pool_idle, used,
          mainPc, attempt, mainConn, warned, bgPc, bgConn, inflight, resp, acked>>

storeVars == <<tableExists, users, nextId>>
poolVars == <<connection_pool, pool_idle, used>>
mainVars == <<mainPc, attempt, mainConn, warned>>
bgVars == <<bgPc, bgConn>>

(***************************************************************************)
(* Handler frames and completed exchanges.                                 *)
(***************************************************************************)
NoRequest == Request("", <<>>, FALSE, 0, NoBody)

\* REQUEST_COUNT.labels(method=, endpoint=, status=)
Label(method, endpoint, status) ==
    [method |-> method, endpoint |-> endpoint, status |-> status]

\* A request in progress: its handler's position (pc), the connection it
\* leases ("open", or "broken" once the server was lost), the id its INSERT
\* returned (0: none), whether a stored user held its email when it was
\* received, and the REQUEST_COUNT samples it has incremented.
Frame(req, pc, conn, id, held, counted) ==
    [req |-> req, pc |-> pc, conn |-> conn, id |-> id, held |-> held,
     counted |-> counted]

\* The fields of a response body the claims read: a user object (200 of
\* /users/{id}, 201), or the count of a listing.
NoOut == [id |-> 0, name |-> Null, email |-> Null, created_at |-> FALSE, count |-> 0]
UserOut(id, name, email) ==
    [id |-> id, name |-> name, email |-> email, created_at |-> TRUE, count |-> 0]
ListOut(n) == [NoOut EXCEPT !.count = n]

\* A completed exchange: the request, the step that ended it, the status and
\* message written (0: the handler ended without writing a response), the
\* exception that was raised, the REQUEST_COUNT samples and the USERS_COUNT
\* operation of the request, the body written, and whether the request
\* committed a row.
Response(f, stage, status, message, error, counted, gauge, out, wrote) ==
    [req |-> f.req, held |-> f.held, stage |-> stage, status |-> status,
     message |-> message, error |-> error, counted |-> counted, gauge |-> gauge,
     out |-> out, wrote |-> wrote]

NoFrame == Frame(NoRequest, "none", "none", 0, FALSE, <<>>)
NoResp == Response(NoFrame, "none", 0, "", "none", <<>>, "", NoOut, FALSE)

\* The response (_send_response, _send_error: lines 123-131) of a handler
\* that read no row and committed none.
Answer(f, stage, status, message, error) ==
    Response(f, stage, status, message, error, f.counted, "", NoOut, FALSE)

EmailsOf(rows) == {u.email : u \in rows}

(***************************************************************************)
(* The connection pool (lines 46-75).                                      *)
(***************************************************************************)
\* Mutation of get_db_connection: getconn() without the PoolError at maxconn
\* leased connections.
GetConnUnbounded ==
    IF ~connection_pool
    THEN [conn |-> "none", idle |-> pool_idle, used |-> used, error |-> "NoPool"]
    ELSE IF pool_idle # <<>>
    THEN [conn |-> pool_idle[Len(pool_idle)],
          idle |-> SubSeq(pool_idle, 1, Len(pool_idle) - 1),
          used |-> used + 1, error |-> "none"]
    ELSE IF dbUp
    THEN [conn |-> "open", idle |-> pool_idle, used |-> used + 1, error |-> "none"]
    ELSE [conn |-> "none", idle |-> pool_idle, used |-> used,
          error |-> "OperationalError"]

\* get_db_connection: None without a pool; otherwise getconn(), which pops an
\* idle connection, raises PoolError when maxconn are leased, and else opens
\* a connection, which fails while the server is unreachable.  Every
\* exception is caught and None returned.
get_db_connection ==
    IF ~connection_pool
    THEN [conn |-> "none", idle |-> pool_idle, used |-> used, error |-> "NoPool"]
    ELSE IF pool_idle # <<>>
    THEN [conn |-> pool_idle[Len(pool_idle)],
          idle |-> SubSeq(pool_idle, 1, Len(pool_idle) - 1),
          used |-> used + 1, error |-> "none"]
    ELSE IF used = maxconn
    THEN [conn |-> "none", idle |-> pool_idle, used |-> used, error |-> "PoolError"]
    ELSE IF dbUp
    THEN [conn |-> "open", idle |-> pool_idle, used |-> used + 1, error |-> "none"]
    ELSE [conn |-> "none", idle |-> pool_idle, used |-> used,
          error |-> "OperationalError"]

\* Mutation of release_db_connection: a broken connection is not put back.
ReleaseOpenOnly(conn) ==
    IF connection_pool /\ conn = "open"
    THEN [idle |-> IF Len(pool_idle) < minconn
                   THEN Append(pool_idle, conn) ELSE pool_idle,
          used |-> used - 1]
    ELSE [idle |-> pool_idle, used |-> used]

\* release_db_connection(conn): putconn keeps an open connection while fewer
\* than minconn are idle and closes any other.
release_db_connection(conn) ==
    IF connection_pool /\ conn # "none"
    THEN [idle |-> IF Len(pool_idle) < minconn /\ conn = "open"
                   THEN Append(pool_idle, conn) ELSE pool_idle,
          used |-> used - 1]
    ELSE [idle |-> pool_idle, used |-> used]

Acquire(g) == pool_idle' = g.idle /\ used' = g.used /\ UNCHANGED connection_pool

Release(conn) ==
    /\ pool_idle' = release_db_connection(conn).idle
    /\ used' = release_db_connection(conn).used
    /\ UNCHANGED connection_pool

(***************************************************************************)
(* Construction (lines 46-60) and the state the process starts in.         *)
(***************************************************************************)
Init ==
    /\ dbUp \in BOOLEAN
    /\ tableExists = FALSE
    /\ users = {}
    /\ nextId = 1
    \* SimpleConnectionPool opens minconn connections, or raises
    /\ connection_pool = dbUp
    /\ pool_idle = IF dbUp THEN <<"open">> ELSE <<>>
    /\ used = 0
    /\ mainPc = "retry"
    /\ attempt = 0
    /\ mainConn = "none"
    /\ warned = FALSE
    /\ bgPc = "off"
    /\ bgConn = "none"
    /\ inflight = EmptyBag
    /\ resp = NoResp
    /\ acked = {}

(***************************************************************************)
(* The store's server going away and coming back.                          *)
(***************************************************************************)
Break(conn) == IF conn = "open" THEN "broken" ELSE conn

BreakFrame(f) == [f EXCEPT !.conn = Break(f.conn)]

\* Every open connection is lost; what was committed stays.
StoreDown ==
    /\ dbUp
    /\ dbUp' = FALSE
    /\ pool_idle' = [i \in 1..Len(pool_idle) |-> Break(pool_idle[i])]
    /\ mainConn' = Break(mainConn)
    /\ bgConn' = Break(bgConn)
    /\ inflight' = BagOfAll(BreakFrame, inflight)
    /\ resp' = NoResp
    /\ UNCHANGED <<storeVars, connection_pool, used, mainPc, attempt, warned, bgPc, acked>>

StoreUp ==
    /\ ~dbUp
    /\ dbUp' = TRUE
    /\ resp' = NoResp
    /\ UNCHANGED <<storeVars, poolVars, mainVars, bgVars, inflight, acked>>

(***************************************************************************)
(* init_database (lines 77-106) under the retry loop of __main__           *)
(* (lines 350-365).                                                        *)
(***************************************************************************)
\* init_database returned False: time.sleep(5), then the next attempt, or
\* after max_retries attempts the for loop's else branch (the warning); the
\* threads and the listener are started either way.
AttemptFailed ==
    /\ attempt' = attempt + 1
    /\ IF attempt + 1 = max_retries
       THEN mainPc' = "serving" /\ warned' = TRUE /\ bgPc' = "sleep"
       ELSE mainPc' = "retry" /\ warned' = warned /\ bgPc' = bgPc

\* Mutation of AttemptSucceeded: the loop without its break.
AttemptSucceededNoBreak ==
    /\ attempt' = attempt + 1
    /\ IF attempt + 1 = max_retries
       THEN mainPc' = "serving" /\ warned' = TRUE /\ bgPc' = "sleep"
       ELSE mainPc' = "retry" /\ warned' = warned /\ bgPc' = bgPc

\* init_database returned True: break, start the threads and the listener.
AttemptSucceeded ==
    /\ attempt' = attempt + 1
    /\ mainPc' = "serving"
    /\ warned' = warned
    /\ bgPc' = "sleep"

\* conn = get_db_connection(); if not conn: return False
InitAcquire ==
    /\ mainPc = "retry"
    /\ attempt < max_retries
    /\ LET g == get_db_connection IN
       /\ Acquire(g)
       /\ IF g.conn = "none"
          THEN AttemptFailed /\ mainConn' = "none"
          ELSE /\ mainPc' = "init_db"
               /\ mainConn' = g.conn
               /\ UNCHANGED <<attempt, warned, bgPc>>
    /\ resp' = NoResp
    /\ UNCHANGED <<dbUp, storeVars, bgConn, inflight, acked>>

\* CREATE TABLE IF NOT EXISTS, CREATE INDEX IF NOT EXISTS, commit; an
\* exception returns False; finally: release_db_connection(conn)
InitExecute ==
    /\ mainPc = "init_db"
    /\ IF mainConn = "open"
       THEN tableExists' = TRUE /\ AttemptSucceeded
       ELSE tableExists' = tableExists /\ AttemptFailed
    /\ Release(mainConn)
    /\ mainConn' = "none"
    /\ resp' = NoResp
    /\ UNCHANGED <<dbUp, users, nextId, bgConn, inflight, acked>>

(***************************************************************************)
(* simulate_background_load (lines 316-333).                               *)
(***************************************************************************)
\* conn = get_db_connection(); if conn: ...; else straight to the sleep
BgAcquire ==
    /\ bgPc = "sleep"
    /\ LET g == get_db_connection IN
       /\ Acquire(g)
       /\ bgConn' = g.conn
       /\ bgPc' = IF g.conn = "none" THEN "sleep" ELSE "leased"
    /\ resp' = NoResp
    /\ UNCHANGED <<dbUp, storeVars, mainVars, inflight, acked>>

\* the two queries (an exception is logged by the outer except); finally:
\* release_db_connection(conn); then the sleep
BgQuery ==
    /\ bgPc = "leased"
    /\ Release(bgConn)
    /\ bgConn' = "none"
    /\ bgPc' = "sleep"
    /\ resp' = NoResp
    /\ UNCHANGED <<dbUp, storeVars, mainVars, inflight, acked>>

(***************************************************************************)
(* Receiving a request: do_GET and do_POST up to the connection            *)
(* (lines 133-157, 187-198, 224-226, 234-260, 304-306).                    *)
(***************************************************************************)
\* What the handler does before it touches the pool: it answers at once
\* (store FALSE), or goes on to get_db_connection and then to step pc.
Direct(status, message, error, counted) ==
    [store |-> FALSE, pc |-> "received", status |-> status, message |-> message,
     error |-> error, counted |-> counted]
ToStore(pc, counted) ==
    [store |-> TRUE, pc |-> pc, status |-> 0, message |-> "", error |-> "none",
     counted |-> counted]

\* do_GET: REQUEST_COUNT is incremented with status='200' as the branch is
\* entered, before the id is checked and before the pool is asked.
DoGetEntry(r) ==
    IF r.path = PathHealth
    THEN Direct(200, "healthy", "none", <<Label("GET", "/health", "200")>>)
    ELSE IF r.path = PathUsers
    THEN ToStore("list", <<Label("GET", "/users", "200")>>)
    ELSE IF StartsWith(r.path, PathUsersSlash)
    THEN IF ~IsDigit(LastSegment(r.path))
         THEN Direct(400, "Invalid user ID", "none",
                     <<Label("GET", "/users/{id}", "200")>>)
         ELSE ToStore("get", <<Label("GET", "/users/{id}", "200")>>)
    ELSE Direct(404, "Not found", "none", <<Label("GET", "unknown", "404")>>)

\* int(self.headers.get('Content-Length', 0))
ContentLength(r) == IF r.hasCL THEN r.cl ELSE 0

\* do_POST: only content_length == 0 is the empty body (a negative length
\* makes rfile.read read the body to its end); only json.JSONDecodeError is
\* caught, so the UnicodeDecodeError of decode('utf-8') and the TypeError of
\* 'name' not in data on a JSON number leave do_POST and no response is
\* written (status 0).
DoPostEntry(r) ==
    IF r.path # PathUsers
    THEN Direct(404, "Not found", "none", <<Label("POST", "unknown", "404")>>)
    ELSE IF ContentLength(r) = 0
    THEN Direct(400, "Empty request body", "none", <<>>)
    ELSE IF r.body.kind = "invalid_utf8"
    THEN Direct(0, "", "UnicodeDecodeError", <<>>)
    ELSE IF r.body.kind = "invalid_json"
    THEN Direct(400, "Invalid JSON", "none", <<>>)
    ELSE IF r.body.kind = "number"
    THEN Direct(0, "", "TypeError", <<>>)
    ELSE IF ~r.body.hasName \/ ~r.body.hasEmail
    THEN Direct(400, "Name and email are required", "none", <<>>)
    ELSE ToStore("precheck", <<>>)

Entry(r) == IF r.method = "GET" THEN DoGetEntry(r) ELSE DoPostEntry(r)

\* A stored user holds the email of the request.
Held(r) ==
    /\ r.body.hasEmail
    /\ r.body.email.t = "str"
    /\ r.body.email.s \in EmailsOf(users)

\* Frames whose INSERT is still to come.
ToInsert == {f \in BagToSet(inflight) : f.pc \in {"precheck", "insert"}}
IdsLeft ==
    LET n == IF ToInsert = {} THEN 0
             ELSE BagCardinality([f \in ToInsert |-> CopiesIn(f, inflight)])
    IN  nextId + n <= MaxId

Put(f) == inflight' = inflight (+) SetToBag({f})
Drop(f) == inflight' = inflight (-) SetToBag({f})
Move(f, g) == inflight' = (inflight (-) SetToBag({f})) (+) SetToBag({g})

\* The listener hands request r to its handler, which runs up to its first
\* step on the store; limit bounds the requests in progress.
Receive(r, limit) ==
    /\ mainPc = "serving"
    /\ BagCardinality(inflight) < limit
    /\ LET e == Entry(r)
           f == Frame(r, e.pc, "none", 0, Held(r), e.counted)
           g == get_db_connection
       IN  /\ e.pc = "precheck" => IdsLeft
           /\ IF ~e.store
              THEN /\ resp' = Answer(f, "received", e.status, e.message, e.error)
                   /\ UNCHANGED <<poolVars, inflight>>
              ELSE /\ Acquire(g)
                   /\ IF g.conn = "none"
                      THEN /\ resp' = Answer(f, "received", 503,
                                            "Database unavailable", g.error)
                           /\ UNCHANGED inflight
                      ELSE /\ resp' = NoResp
                           /\ Put([f EXCEPT !.conn = g.conn])
    /\ UNCHANGED <<dbUp, storeVars, mainVars, bgVars, acked>>

(***************************************************************************)
(* The steps of a handler that holds a connection.                         *)
(***************************************************************************)
\* The exception a statement on the connection of f raises before it runs.
ConnError(f) ==
    IF f.conn # "open" THEN "OperationalError"
    ELSE IF ~tableExists THEN "UndefinedTable"
    ELSE "none"

Min(a, b) == IF a <= b THEN a ELSE b

\* GET /users (lines 158-185)
ListUsers(f) ==
    /\ f.pc = "list"
    /\ resp' = IF ConnError(f) = "none"
               THEN Response(f, "list", 200, "users", "none", f.counted, "set",
                             ListOut(Min(Cardinality(users), ListLimit)), FALSE)
               ELSE Answer(f, "list", 500, "Internal server error", ConnError(f))
    /\ Release(f.conn)
    /\ Drop(f)
    /\ UNCHANGED <<dbUp, storeVars, mainVars, bgVars, acked>>

\* GET /users/{id} (lines 200-222)
GetUser(f) ==
    /\ f.pc = "get"
    /\ LET rows == {u \in users : u.id = ToInt(LastSegment(f.req.path))} IN
       resp' = IF ConnError(f) # "none"
               THEN Answer(f, "get", 500, "Internal server error", ConnError(f))
               ELSE IF rows = {}
               THEN Answer(f, "get", 404, "User not found", "none")
               ELSE LET row == CHOOSE u \in rows : TRUE IN
                    Response(f, "get", 200, "user", "none", f.counted, "",
                             UserOut(row.id, Str(row.name), Str(row.email)), FALSE)
    /\ Release(f.conn)
    /\ Drop(f)
    /\ UNCHANGED <<dbUp, storeVars, mainVars, bgVars, acked>>

\* except Exception (lines 297-300): conn.rollback() raises on a lost
\* connection and the exception leaves do_POST with no response written;
\* otherwise 500.  A row already committed stays (wrote).
Except(f, stage, error, counted, wrote) ==
    IF f.conn # "open"
    THEN Response(f, stage, 0, "", error, counted, "", NoOut, wrote)
    ELSE Response(f, stage, 500, "Internal server error", error, counted, "",
                  NoOut, wrote)

\* Mutation of PreCheck: create without the lookup of the email.
PreCheckSkipped(f) ==
    /\ f.pc = "precheck"
    /\ IF ConnError(f) # "none"
       THEN /\ resp' = Except(f, "precheck", ConnError(f), f.counted, FALSE)
            /\ Release(f.conn) /\ Drop(f)
       ELSE /\ resp' = NoResp
            /\ Move(f, [f EXCEPT !.pc = "insert"])
            /\ UNCHANGED poolVars
    /\ UNCHANGED <<dbUp, storeVars, mainVars, bgVars, acked>>

\* SELECT id FROM users WHERE email = %s (lines 263-272)
PreCheck(f) ==
    /\ f.pc = "precheck"
    /\ IF ConnError(f) # "none"
       THEN /\ resp' = Except(f, "precheck", ConnError(f), f.counted, FALSE)
            /\ Release(f.conn) /\ Drop(f)
       ELSE IF Held(f.req)
       THEN /\ resp' = Answer(f, "precheck", 409, "Email already exists", "none")
            /\ Release(f.conn) /\ Drop(f)
       ELSE /\ resp' = NoResp
            /\ Move(f, [f EXCEPT !.pc = "insert"])
            /\ UNCHANGED poolVars
    /\ UNCHANGED <<dbUp, storeVars, mainVars, bgVars, acked>>

\* Emails of rows inserted by transactions still open.
Uncommitted ==
    {f.req.body.email.s :
        f \in {x \in BagToSet(inflight) : x.pc = "commit" /\ x.conn = "open"}}

\* The error of INSERT INTO users (name, email) VALUES (%s, %s) under the
\* table's constraints (lines 89-92): VARCHAR(100), NOT NULL, UNIQUE.
InsertError(name, email) ==
    IF (name.t = "str" /\ Len(name.s) > VarcharLen)
       \/ (email.t = "str" /\ Len(email.s) > VarcharLen)
    THEN "StringDataRightTruncation"
    ELSE IF name.t = "null" \/ email.t = "null"
    THEN "NotNullViolation"
    ELSE IF email.s \in EmailsOf(users)
    THEN "UniqueViolation"
    ELSE "none"

\* INSERT ... RETURNING id, created_at (lines 275-280).  An INSERT of an email
\* that an open transaction has inserted waits for that transaction.
Insert(f) ==
    /\ f.pc = "insert"
    /\ LET b == f.req.body
           error == IF f.conn # "open" THEN "OperationalError"
                    ELSE InsertError(b.name, b.email)
       IN  /\ (f.conn = "open" /\ error \in {"none", "UniqueViolation"})
                => b.email.s \notin Uncommitted
           /\ IF error # "none"
              THEN /\ resp' = Except(f, "insert", error, f.counted, FALSE)
                   /\ Release(f.conn) /\ Drop(f)
                   /\ UNCHANGED nextId
              ELSE /\ resp' = NoResp
                   /\ Move(f, [f EXCEPT !.pc = "commit", !.id = nextId])
                   /\ nextId' = nextId + 1
                   /\ UNCHANGED poolVars
    /\ UNCHANGED <<dbUp, tableExists, users, mainVars, bgVars, acked>>

\* conn.commit() (line 281)
Commit(f) ==
    /\ f.pc = "commit"
    /\ IF f.conn # "open"
       THEN /\ resp' = Except(f, "commit", "OperationalError", f.counted, FALSE)
            /\ Release(f.conn) /\ Drop(f)
            /\ UNCHANGED users
       ELSE /\ resp' = NoResp
            /\ users' = users \cup
                 {[id |-> f.id, name |-> f.req.body.name.s,
                   email |-> f.req.body.email.s]}
            /\ Move(f, [f EXCEPT !.pc = "respond"])
            /\ UNCHANGED poolVars
    /\ UNCHANGED <<dbUp, tableExists, nextId, mainVars, bgVars, acked>>

\* REQUEST_COUNT...status='201', _send_response(..., 201), USERS_COUNT.inc()
\* (lines 283-295).  written: the client reads the response; otherwise the
\* write raises BrokenPipeError after the commit, the except branch rolls
\* back nothing, and its _send_error raises on the same socket, so that no
\* response is written.
Respond(f, written) ==
    /\ f.pc = "respond"
    /\ LET counted == Append(f.counted, Label("POST", "/users", "201"))
           out == UserOut(f.id, f.req.body.name, f.req.body.email)
       IN  IF written
           THEN /\ resp' = Response(f, "respond", 201, "User created successfully",
                                    "none", counted, "inc", out, TRUE)
                /\ acked' = acked \cup {out}
           ELSE /\ resp' = Response(f, "respond", 0, "", "BrokenPipeError",
                                    counted, "", NoOut, TRUE)
                /\ UNCHANGED acked
    /\ Release(f.conn)
    /\ Drop(f)
    /\ UNCHANGED <<dbUp, storeVars, mainVars, bgVars>>

(***************************************************************************)
(* The specifications.                                                     *)
(***************************************************************************)
Startup == InitAcquire \/ InitExecute

Background == BgAcquire \/ BgQuery

Handlers ==
    \/ \E f \in BagToSet(inflight) : ListUsers(f)
    \/ \E f \in BagToSet(inflight) : GetUser(f)
    \/ \E f \in BagToSet(inflight) : PreCheck(f)
    \/ \E f \in BagToSet(inflight) : Insert(f)
    \/ \E f \in BagToSet(inflight) : Commit(f)
    \/ \E f \in BagToSet(inflight) : Respond(f, TRUE)
    \/ \E f \in BagToSet(inflight) : Respond(f, FALSE)

\* The service as __main__ runs it: one request at a time beside the load
\* loop, over a store that may go away and come back.
Next ==
    \/ StoreDown
    \/ StoreUp
    \/ Startup
    \/ Background
    \/ \E r \in Requests : Receive(r, ListenerWorkers)
    \/ Handlers

Spec == Init /\ [][Next]_vars

\* The handlers on concurrent workers, as many as exhaust the pool, over a
\* store that stays as it was at start.
ThreadedNext ==
    \/ Startup
    \/ Background
    \/ \E r \in PoolRequests : Receive(r, PoolInFlight)
    \/ Handlers

ThreadedSpec == Init /\ [][ThreadedNext]_vars



\* The threads of the process run, requests keep arriving, and the store
\* goes away and comes back as it will.
OutageSpec ==
    /\ Init
    /\ [][Next]_vars
    /\ WF_vars(Startup)
    /\ WF_vars(Background)
    /\ WF_vars(Handlers)
    /\ WF_vars(\E r \in Requests : Receive(r, ListenerWorkers))

(***************************************************************************)
(* What the properties read off an exchange.                               *)
(***************************************************************************)
Done == resp # NoResp

IsCreate(r) == r.method = "POST" /\ r.path = PathUsers

\* A JSON object with the name and the email key, in a body that is read.
HasNameAndEmail(r) ==
    /\ ContentLength(r) # 0
    /\ r.body.kind = "object"
    /\ r.body.hasName
    /\ r.body.hasEmail

\* Name and email are strings that VARCHAR(100) holds.
StoredAsSent(r) ==
    /\ r.body.name.t = "str" /\ Len(r.body.name.s) <= VarcharLen
    /\ r.body.email.t = "str" /\ Len(r.body.email.s) <= VarcharLen

\* The request uses the store: it asks the pool for a connection.
UsesStore(r) == Entry(r).store

\* Failures of the pool, the server, the schema or the client's socket.
Faults ==
    {"NoPool", "PoolError", "OperationalError", "UndefinedTable", "BrokenPipeError"}

\* The request lost to another one that stored its email while it ran.
LostRace == resp.status = 409 \/ resp.error = "UniqueViolation"

RowOf(out) == [id |-> out.id, name |-> out.name.s, email |-> out.email.s]

\* str(status) of the label
StatusText(n) ==
    CASE n = 200 -> "200" [] n = 201 -> "201" [] n = 400 -> "400"
      [] n = 404 -> "404" [] n = 409 -> "409" [] n = 500 -> "500"
      [] n = 503 -> "503" [] OTHER -> ""

LeasesHeld ==
    BagCardinality(inflight)
    + (IF bgPc = "leased" THEN 1 ELSE 0)
    + (IF mainPc = "init_db" THEN 1 ELSE 0)

(***************************************************************************)
(* C1: create/get round trip.                                              *)
(***************************************************************************)
\* C1 as stated, read for a run without a failure of the pool, the store or
\* the socket and without a competing create: every POST /users whose body is
\* a JSON object with name and email, and whose email no stored user held,
\* is answered 201 with a positive id and a created_at; and a later
\* GET /users/{id} with that id returns 200 with the same name and email.
C1_Original ==
    /\ (Done /\ IsCreate(resp.req) /\ HasNameAndEmail(resp.req) /\ ~resp.held
          /\ resp.error \notin Faults /\ ~LostRace)
        => (resp.status = 201 /\ resp.out.id > 0 /\ resp.out.created_at)
    /\ (Done /\ resp.req.method = "GET" /\ UsesStore(resp.req)
          /\ resp.error \notin Faults
          /\ \E a \in acked : a.id = ToInt(LastSegment(resp.req.path)))
        => (resp.status = 200 /\ resp.out \in acked)

\* The part of C1 that the handlers keep: a body whose name and email are
\* strings of at most 100 characters.  Every POST /users of such a body with
\* an email no stored user held, which meets no failure of the pool, the
\* store or the socket and no competing create of that email, is answered
\* 201 with a positive id and a created_at, and its row is stored; every row
\* a 201 carried stays stored under its id; and every later GET /users/{id}
\* with that id which meets no such failure returns 200 with that name and
\* email.
C1_RoundTrip ==
    /\ (Done /\ IsCreate(resp.req) /\ HasNameAndEmail(resp.req) /\ ~resp.held
          /\ StoredAsSent(resp.req) /\ resp.error \notin Faults /\ ~LostRace)
        => (resp.status = 201 /\ resp.out.id > 0 /\ resp.out.created_at)
    /\ (Done /\ resp.status = 201)
        => /\ resp.out.id > 0 /\ resp.out.created_at
           /\ resp.out.name = resp.req.body.name
           /\ resp.out.email = resp.req.body.email
           /\ resp.out \in acked
    /\ \A a \in acked :
           /\ RowOf(a) \in users
           /\ \A u \in users : u.id = a.id => u = RowOf(a)
    /\ (Done /\ resp.req.method = "GET" /\ UsesStore(resp.req)
          /\ resp.req.path # PathUsers /\ resp.error \notin Faults
          /\ \E a \in acked : a.id = ToInt(LastSegment(resp.req.path)))
        => /\ resp.status = 200
           /\ resp.out \in acked
           /\ resp.out.id = ToInt(LastSegment(resp.req.path))

\* A GET /users/{id} has returned a user that a 201 carried.
C1_Witness ==
    /\ Done /\ resp.req.method = "GET" /\ resp.stage = "get"
    /\ resp.status = 200 /\ resp.out \in acked
    /\ Cardinality(acked) = 2

(***************************************************************************)
(* C2: a duplicate email is a conflict.                                    *)
(***************************************************************************)
\* C2: a POST /users (with name and email, meeting no failure of the pool or
\* the store) whose email a stored user already held is answered 409 'Email
\* already exists'; it committed no row, and the email still has one row.
C2_Duplicate ==
    (Done /\ IsCreate(resp.req) /\ UsesStore(resp.req) /\ resp.held
       /\ resp.error \notin Faults)
    => /\ resp.status = 409
       /\ resp.message = "Email already exists"
       /\ ~resp.wrote
       /\ Cardinality({u \in users : u.email = resp.req.body.email.s}) = 1

\* A create of a held email has been answered.
C2_Witness ==
    /\ Done /\ IsCreate(resp.req) /\ resp.held
    /\ resp.status = 409
    /\ Cardinality(users) = 1

(***************************************************************************)
(* C3: concurrent creates of one email.                                    *)
(***************************************************************************)
\* C3: among creates in progress together that carry one email no stored
\* user held, no two stored users ever share an email, at most one create is
\* answered 201, and every other one (meeting no failure of the pool, the
\* store or the socket) is answered 409.
C3_Race ==
    /\ \A u, v \in users : u.email = v.email => u = v
    /\ \A a, b \in acked : a.email = b.email => a = b
    /\ (Done /\ IsCreate(resp.req) /\ UsesStore(resp.req) /\ ~resp.held
          /\ StoredAsSent(resp.req) /\ resp.error \notin Faults
          /\ resp.status # 201)
        => resp.status = 409

(***************************************************************************)
(* C4: every lease is returned.                                            *)
(***************************************************************************)
\* C4: the leased connections are those of the operations in progress (the
\* handlers between their get_db_connection and their finally, a load
\* iteration, a bootstrap attempt): every exit path has released its
\* connection, and with no operation in progress none is leased.
C4_Released ==
    /\ used = (IF connection_pool THEN LeasesHeld ELSE 0)
    /\ (inflight = EmptyBag /\ bgPc # "leased" /\ mainPc # "init_db") => used = 0
    /\ ~connection_pool => LeasesHeld = 0

\* A create left through the failed rollback, and nothing is leased.
C4_Witness ==
    /\ Done /\ IsCreate(resp.req)
    /\ resp.status = 0 /\ resp.error = "OperationalError"
    /\ resp.stage \in {"precheck", "insert", "commit"}
    /\ inflight = EmptyBag /\ bgPc # "leased"
    /\ used = 0

(***************************************************************************)
(* C5: exhaustion of the pool.                                             *)
(***************************************************************************)
\* A request that uses the store is received in this step.
ReceivedStoreRequest ==
    \/ resp' # NoResp /\ resp'.stage = "received" /\ UsesStore(resp'.req)
    \/ BagCardinality(inflight') > BagCardinality(inflight)

\* C5: with maxconn connections leased, a request that uses the store is
\* answered 503 'Database unavailable' in the step that receives it, and the
\* leased count stays; no more than maxconn are ever leased; and a 503 of a
\* service that has its pool and reaches its store is given only then, so
\* that once a lease is returned the next such request is not answered 503.
C5_Exhaustion ==
    [][ /\ (connection_pool /\ used = maxconn /\ ReceivedStoreRequest)
            => /\ resp'.status = 503
               /\ resp'.message = "Database unavailable"
               /\ used' = used
               /\ inflight' = inflight
        /\ used' <= maxconn
        /\ (resp'.status = 503 /\ connection_pool' /\ dbUp')
            => (used' = maxconn /\ resp'.error = "PoolError")
      ]_vars

\* A request found every connection leased.
C5_Witness ==
    /\ Done /\ resp.status = 503 /\ resp.error = "PoolError"
    /\ IsCreate(resp.req)
    /\ used = maxconn

(***************************************************************************)
(* C6: client input errors of create.                                      *)
(***************************************************************************)
\* C6: a POST /users with a Content-Length not above 0 is answered 400 'Empty
\* request body'; with a body that is no JSON or no UTF-8, 400 'Invalid
\* JSON'; with a parsed body of any JSON type lacking the name or the email
\* key, 400 'Name and email are required'; each before any connection is
\* asked for, and none without a response.
C6_ClientErrors ==
    (Done /\ IsCreate(resp.req))
    => /\ ContentLength(resp.req) <= 0
           => /\ resp.status = 400 /\ resp.message = "Empty request body"
              /\ resp.stage = "received"
       /\ (ContentLength(resp.req) > 0
             /\ resp.req.body.kind \in {"invalid_json", "invalid_utf8"})
           => /\ resp.status = 400 /\ resp.message = "Invalid JSON"
              /\ resp.stage = "received"
       /\ (ContentLength(resp.req) > 0
             /\ resp.req.body.kind \in {"object", "array", "number"}
             /\ ~(resp.req.body.hasName /\ resp.req.body.hasEmail))
           => /\ resp.status = 400
              /\ resp.message = "Name and email are required"
              /\ resp.stage = "received"

(***************************************************************************)
(* C7: the request counter.                                                *)
(***************************************************************************)
\* C7: every request that is answered has incremented REQUEST_COUNT once,
\* under the label whose status is the status of the response written.
C7_Counted ==
    (Done /\ resp.status # 0)
    => /\ Len(resp.counted) = 1
       /\ resp.counted[1].method = resp.req.method
       /\ resp.counted[1].status = StatusText(resp.status)

(***************************************************************************)
(* C8: a store that is unreachable at startup.                             *)
(***************************************************************************)
\* C8: a service whose pool could not be created answers every request that
\* uses the store with 503; and once the store is reachable for good, the
\* 503 answers come to an end.
C8_Recovers ==
    /\ [](Done /\ UsesStore(resp.req) /\ ~connection_pool => resp.status = 503)
    /\ (<>[]dbUp => <>[](resp.status # 503))

(***************************************************************************)
(* C9: the bootstrap loop.                                                 *)
(***************************************************************************)
\* C9: init_database is called at most max_retries times and never again
\* after it succeeded; until it succeeded or failed max_retries times the
\* loop can take its next step, and then the load loop and the listener run,
\* the warning being logged only after max_retries failures; an attempt that
\* is over holds no connection.
C9_Bootstrap ==
    /\ attempt <= max_retries
    /\ mainPc # "serving" => /\ ENABLED Startup
                             /\ ~tableExists
                             /\ ~warned
                             /\ bgPc = "off"
                             /\ inflight = EmptyBag
                             /\ attempt < max_retries
    /\ mainPc = "serving" => /\ ~ENABLED Startup
                             /\ bgPc # "off"
                             /\ warned = ~tableExists
                             /\ warned => attempt = max_retries
                             /\ attempt >= 1
    /\ mainPc # "init_db" => mainConn = "none"
    /\ (mainPc # "init_db" /\ inflight = EmptyBag /\ bgPc # "leased") => used = 0

\* The fifth attempt failed, and the service runs.
C9_Witness ==
    /\ mainPc = "serving" /\ warned /\ attempt = max_retries
    /\ connection_pool /\ used = 0
    /\ bgPc = "sleep"

(***************************************************************************)
(* C10: a create that ends in the exception branch.                        *)
(***************************************************************************)
\* C10: a POST /users that is answered 500, or whose except branch ran at
\* any step from the pre-check to the end of the try block, has persisted no
\* row and has not incremented USERS_COUNT.
C10_NothingPersisted ==
    (Done /\ IsCreate(resp.req)
       /\ (resp.status = 500
           \/ (resp.error # "none"
               /\ resp.stage \in {"precheck", "insert", "commit", "respond"})))
    => /\ ~resp.wrote
       /\ resp.gauge # "inc"

====
